---------------------------- MODULE Spec2Model ----------------------------
(***************************************************************************)
(* A model of the ingestion core of src/Log_App.py: encoding detection,   *)
(* multi-line entry reassembly with batching (parse_streaming_to_dfs and  *)
(* the loop that pulls its batches), field extraction                      *)
(* (parse_single_entry) and user-agent classification (canonicalize_ua).   *)
(*                                                                         *)
(* Text is modelled as a sequence of lexemes.  A lexeme is a TLA+ string   *)
(* that stands for the literal text of the same spelling, except           *)
(*     "SP"     one whitespace character that is part of an input line,    *)
(*     "JOIN"   the single space that " ".join(buf) puts between two       *)
(*              fragments (the same character as "SP"; the name only       *)
(*              records where it came from, every pattern treats the two   *)
(*              alike),                                                    *)
(*     "QUOTE"  the double quote character.                                *)
(* The lexemes are chosen so that every regular expression of the source   *)
(* matches a concatenation of lexemes exactly when the lexeme-level        *)
(* operator below matches the sequence: no match of any pattern of the     *)
(* source can begin or end inside a lexeme unless the operator says so     *)
(* (LeadDigits, PreSlash, the pieces of "v=1").                            *)
(***************************************************************************)
EXTENDS Integers, Sequences, FiniteSets, TLC

\* ------------------------------------------------------------------ bounds
\* Longest input (in lines) fed to parse_streaming_to_dfs.
MaxLines == 3
\* batch_size of parse_streaming_to_dfs (5000 by default, 4000 at the call
\* site), scaled down.
BatchSize == 2
\* Longest user-agent (in lexemes) classified under SpecUA.
MaxUaLen == 3
\* Longest byte sample given to detect_encoding_from_sample under SpecEnc.
MaxSampleLen == 4
\* Longest free-form entry (in lexemes) given to parse_single_entry under
\* SpecParse, besides the fixed log lines of SampleEntries.
MaxEntryLen == 2

\* ------------------------------------------------------------ Python values
None == << >>
Some(v) == <<v>>
Dash == <<"-">>
Empty == << >>

\* ------------------------------------------------------------------ lexemes
AI_TOKENS == {"GPTBot", "gptbot", "ChatGPT-User", "PerplexityBot", "Claude-User", "ClaudeBot"}
BOT_TOKENS == {"Googlebot", "Googlebot-Image", "Bingbot", "BingPreview", "AhrefsBot",
               "Slackbot", "Twitterbot", "SemrushBot"}
\* words that match no signature
PLAIN_TOKENS == {"GoogleOther", "crawler", "Mozilla", "access.log"}
UA_TOKENS == AI_TOKENS \cup BOT_TOKENS \cup PLAIN_TOKENS

IP == "203.0.113.255"
DATE == "19/Sep/2025:00:00:39"

IsSpace(x) == x \in {"SP", "JOIN"}
\* x holds a ':' character
HasColon(x) == x \in {":", DATE}
\* x is a non-empty string of digits
IsDigits(x) == x \in {"200", "1532"}
\* the digits x starts with ("" when it starts with none)
LeadDigits(x) ==
    CASE x \in {"200", "1532"} -> x
      [] x = IP -> "203"
      [] x = "537.36" -> "537"
      [] x = DATE -> "19"
      [] OTHER -> ""
\* x starts, ends with a word character (\w)
WordStart(x) == x \in UA_TOKENS \cup {IP, DATE, "200", "1532", "537.36", "GET", "HTTP/1.1", "v=1"}
WordEnd(x) == x \in UA_TOKENS \cup {IP, DATE, "200", "1532", "537.36", "GET", "HTTP/1.1", "v=1",
                                    "/blog/post-1", "/a.css"}

\* ------------------------------------------------------------- str methods
RECURSIVE Join(_)
\* " ".join(buf)
Join(buf) ==
    IF Len(buf) = 0 THEN << >>
    ELSE IF Len(buf) = 1 THEN buf[1]
    ELSE buf[1] \o <<"JOIN">> \o Join(Tail(buf))

RECURSIVE LStrip(_)
LStrip(s) == IF s # << >> /\ IsSpace(s[1]) THEN LStrip(Tail(s)) ELSE s

RECURSIVE RStrip(_)
RStrip(s) == IF s # << >> /\ IsSpace(s[Len(s)]) THEN RStrip(SubSeq(s, 1, Len(s) - 1)) ELSE s

\* s.strip()
Strip(s) == RStrip(LStrip(s))

\* the index after the run of whitespace lexemes that starts at i
RECURSIVE SkipWS(_, _)
SkipWS(s, i) == IF i <= Len(s) /\ IsSpace(s[i]) THEN SkipWS(s, i + 1) ELSE i

\* the index after the run of non-whitespace lexemes (\S+) that starts at i
RECURSIVE SkipNS(_, _)
SkipNS(s, i) == IF i <= Len(s) /\ ~IsSpace(s[i]) THEN SkipNS(s, i + 1) ELSE i

\* the index after the run of digit lexemes (\d+) that starts at i
RECURSIVE SkipDigits(_, _)
SkipDigits(s, i) == IF i <= Len(s) /\ IsDigits(s[i]) THEN SkipDigits(s, i + 1) ELSE i

\* the index after the run of [^:\s]+ that starts at i
RECURSIVE SkipFile(_, _)
SkipFile(s, i) ==
    IF i <= Len(s) /\ ~IsSpace(s[i]) /\ ~HasColon(s[i]) THEN SkipFile(s, i + 1) ELSE i

\* the least j >= i with s[j] = x, or 0
RECURSIVE Find(_, _, _)
Find(s, i, x) == IF i > Len(s) THEN 0 ELSE IF s[i] = x THEN i ELSE Find(s, i + 1, x)

\* ------------------------------------------------------------ START_INFO_RE
\* START_INFO_RE.match(entry): None, or the groups file, lineno, ip
\* (an absent group is None in Python, Empty here).
START_INFO_RE_match(entry) ==
    LET k == SkipFile(entry, 1)     \* entry[1..k-1] is [^:\s]+
        m == SkipDigits(entry, k + 1) \* entry[k+1..m-1] is \d+
        prefixed == /\ k > 1 /\ k <= Len(entry) /\ entry[k] = ":"
                    /\ m > k + 1 /\ m <= Len(entry) /\ entry[m] = ":"
                    /\ m + 2 <= Len(entry) /\ entry[m + 1] = IP /\ IsSpace(entry[m + 2])
        bare == Len(entry) >= 2 /\ entry[1] = IP /\ IsSpace(entry[2])
    IN  IF prefixed
        THEN Some([file |-> SubSeq(entry, 1, k - 1), lineno |-> SubSeq(entry, k + 1, m - 1),
                   ip |-> <<IP>>])
        ELSE IF bare THEN Some([file |-> Empty, lineno |-> Empty, ip |-> <<IP>>])
        ELSE None

\* re.search(r'\d{1,2}/[A-Za-z]{3}/\d{4}', ln)
HasDate(ln) == \E i \in 1..Len(ln) : ln[i] = DATE

\* start_of_entry(ln), the closure of parse_streaming_to_dfs
start_of_entry(ln) ==
    IF ln = << >> THEN FALSE
    ELSE IF START_INFO_RE_match(ln) # None THEN TRUE
    ELSE IF ln[1] = "[" /\ HasDate(ln) THEN TRUE
    ELSE IF LeadDigits(ln[1]) # "" THEN TRUE
    ELSE FALSE

\* the lexeme at i, "" past the end
At(s, i) == IF i >= 1 /\ i <= Len(s) THEN s[i] ELSE ""

\* the digits the text starts with at i: whole digit lexemes, then the leading
\* digits of the lexeme that ends the run
LeadDigitsRun(s, i) ==
    LET k == SkipDigits(s, i)
    IN  SubSeq(s, i, k - 1) \o (IF LeadDigits(At(s, k)) # "" THEN <<LeadDigits(At(s, k))>> ELSE << >>)

\* ------------------------------------------- COMMON_LOG_RE, COMBINED_LOG_RE
\* A pattern is a sequence of elements:
\*   "NS"      \S+
\*   "WS"      \s+
\*   "TIME"    \[(?P<time>[^\]]+)\]
\*   "QUOTED"  "(?P<request>[^"]*)", and likewise referer, ua
\*   "STATUS"  (?P<status>\d{3}|-)
\*   "BYTES"   (?P<bytes>\d+|-)
COMMON_LOG_RE ==
    <<"NS", "WS", "NS", "WS", "NS", "WS", "TIME", "WS", "QUOTED", "WS", "STATUS", "WS", "BYTES">>

COMBINED_LOG_RE == COMMON_LOG_RE \o <<"WS", "QUOTED", "WS", "QUOTED">>

\* the index after the element el matched at i, 0 when it does not match
\* there ("BYTES" may end inside the lexeme at the index it returns)
ElemEnd(e, i, el) ==
    CASE el = "NS" -> IF SkipNS(e, i) > i THEN SkipNS(e, i) ELSE 0
      [] el = "WS" -> IF SkipWS(e, i) > i THEN SkipWS(e, i) ELSE 0
      [] el = "TIME" ->
            IF At(e, i) = "[" /\ Find(e, i + 1, "]") > i + 1 THEN Find(e, i + 1, "]") + 1 ELSE 0
      [] el = "QUOTED" ->
            IF At(e, i) = "QUOTE" /\ Find(e, i + 1, "QUOTE") # 0
            THEN Find(e, i + 1, "QUOTE") + 1 ELSE 0
      [] el = "STATUS" -> IF At(e, i) \in {"200", "-"} THEN i + 1 ELSE 0
      [] el = "BYTES" ->
            IF LeadDigitsRun(e, i) # << >> THEN SkipDigits(e, i)
            ELSE IF At(e, i) = "-" THEN i + 1 ELSE 0

\* the groups the element el captures when it matches at i
ElemGroups(e, i, el) ==
    CASE el = "TIME" -> <<SubSeq(e, i + 1, Find(e, i + 1, "]") - 1)>>
      [] el = "QUOTED" -> <<SubSeq(e, i + 1, Find(e, i + 1, "QUOTE") - 1)>>
      [] el = "STATUS" -> << <<e[i]>> >>
      [] el = "BYTES" -> <<IF LeadDigitsRun(e, i) # << >> THEN LeadDigitsRun(e, i) ELSE Dash>>
      [] OTHER -> << >>

\* the pattern pat matched at i: None, or the groups in order, after groups
RECURSIVE MatchAt(_, _, _, _)
MatchAt(e, i, pat, groups) ==
    IF pat = << >> THEN Some(groups)
    ELSE IF ElemEnd(e, i, pat[1]) = 0 THEN None
    ELSE MatchAt(e, ElemEnd(e, i, pat[1]), Tail(pat), groups \o ElemGroups(e, i, pat[1]))

\* pat.search(e): the match at the leftmost start from i on
RECURSIVE SearchFrom(_, _, _)
SearchFrom(e, i, pat) ==
    IF i > Len(e) THEN None
    ELSE IF MatchAt(e, i, pat, << >>) # None THEN MatchAt(e, i, pat, << >>)
    ELSE SearchFrom(e, i + 1, pat)

\* COMBINED_LOG_RE.search(entry): None, or <<time, request, status, bytes, referer, ua>>
COMBINED_LOG_RE_search(entry) == SearchFrom(entry, 1, COMBINED_LOG_RE)

\* COMMON_LOG_RE.search(entry): None, or <<time, request, status, bytes>>
COMMON_LOG_RE_search(entry) == SearchFrom(entry, 1, COMMON_LOG_RE)

\* ------------------------------------------------ the relaxed extraction
\* re.findall(r'"([^"]*)"', entry) from index i on
RECURSIVE QuotedFrom(_, _)
QuotedFrom(e, i) ==
    LET q1 == Find(e, i, "QUOTE")
        q2 == IF q1 = 0 THEN 0 ELSE Find(e, q1 + 1, "QUOTE")
    IN  IF q2 = 0 THEN << >>
        ELSE <<SubSeq(e, q1 + 1, q2 - 1)>> \o QuotedFrom(e, q2 + 1)

\* re.search(r'\s(\d{3})\s+(-|\d+)', entry) from index i on: None or the two groups
RECURSIVE StatusBytesFrom(_, _)
StatusBytesFrom(e, i) ==
    IF i > Len(e) THEN None
    ELSE LET h == SkipWS(e, i + 2)
         IN  IF IsSpace(e[i]) /\ At(e, i + 1) = "200" /\ h > i + 2 /\ At(e, h) = "-"
             THEN Some(<<(<<"200">>), Dash>>)
             ELSE IF IsSpace(e[i]) /\ At(e, i + 1) = "200" /\ h > i + 2
                     /\ LeadDigitsRun(e, h) # << >>
             THEN Some(<<(<<"200">>), LeadDigitsRun(e, h)>>)
             ELSE StatusBytesFrom(e, i + 1)

\* re.search(r'\[([^\]]+)\]', entry) from index i on: None or the group
RECURSIVE BracketFrom(_, _)
BracketFrom(e, i) ==
    IF i > Len(e) THEN None
    ELSE LET rb == Find(e, i + 1, "]")
         IN  IF e[i] = "[" /\ rb > i + 1 THEN Some(SubSeq(e, i + 1, rb - 1))
             ELSE BracketFrom(e, i + 1)

\* ---------------------------------------------------------------- fields
\* parse_time_preserve_tz(ts): None, or the instant.  A timestamp is the
\* lexeme DATE, which datetime.strptime(ts, "%d/%b/%Y:%H:%M:%S") accepts;
\* any other text is taken to be rejected by all three parsers.
parse_time_preserve_tz(ts) ==
    IF ts = Empty \/ Strip(ts) = Dash THEN None
    ELSE IF ts = <<DATE>> THEN Some("2025-09-19T00:00:39")
    ELSE None

\* the index after the run of [A-Z]+ that starts at i
RECURSIVE SkipUpper(_, _)
SkipUpper(s, i) == IF i <= Len(s) /\ s[i] = "GET" THEN SkipUpper(s, i + 1) ELSE i

\* parse_request_field(request): <<method, path, http_version>>
parse_request_field(request) ==
    IF request = Empty \/ request = Dash THEN <<Dash, Dash, Dash>>
    ELSE LET k == SkipUpper(request, 1)
             p == SkipWS(request, k)
             q == SkipNS(request, p)
             r == SkipWS(request, q)
         IN  IF k > 1 /\ p > k /\ q > p
             THEN <<SubSeq(request, 1, k - 1), SubSeq(request, p, q - 1),
                    IF r > q /\ At(request, r) = "HTTP/1.1" THEN <<"1.1">> ELSE Dash>>
             ELSE <<Dash, request, Dash>>

\* the lexemes made of scheme characters only (letters, digits, "+", "-", ".")
SchemeChars(x) == x \in UA_TOKENS \cup {"GET", "200", "1532", "537.36", IP, "-"}

\* the index after the run of scheme-character lexemes that starts at i
RECURSIVE SkipScheme(_, _)
SkipScheme(s, i) == IF i <= Len(s) /\ SchemeChars(s[i]) THEN SkipScheme(s, i + 1) ELSE i

\* urlparse(url) of urllib.parse: <<path, query>>.  The text before a first
\* ':' is split off as the scheme when it starts with a letter and holds
\* scheme characters only; the query starts after the first '?'.
urlparse(url) ==
    LET c    == SkipScheme(url, 1)
        rest == IF c > 1 /\ At(url, c) = ":" /\ url[1] \in UA_TOKENS \cup {"GET"}
                THEN SubSeq(url, c + 1, Len(url)) ELSE url
        qm   == Find(rest, 1, "?")
    IN  IF qm = 0 THEN <<rest, Empty>>
        ELSE <<SubSeq(rest, 1, qm - 1), SubSeq(rest, qm + 1, Len(rest))>>

\* parse_qs(query): the mapping, as a sequence of <<name, values>>.  The only
\* '=' of the model is the one of the lexeme "v=1".
parse_qs(query) ==
    LET j == Find(query, 1, "v=1")
    IN  IF j = 0 THEN << >>
        ELSE << <<SubSeq(query, 1, j - 1) \o <<"v">>,
                  << <<"1">> \o SubSeq(query, j + 1, Len(query)) >> >> >>

\* safe_urlparse(path): <<path, query, query_params>> (unquote changes
\* nothing: no lexeme holds a '%')
safe_urlparse(path) ==
    IF path = Empty \/ path = Dash THEN <<path, Empty, << >> >>
    ELSE <<urlparse(path)[1], urlparse(path)[2], parse_qs(urlparse(path)[2])>>

\* bool(STATIC_RE.search(path))
STATIC_RE_search(path) ==
    \E i \in 1..Len(path) : path[i] = "/a.css" /\ At(path, i + 1) \in {"", "?"}

\* the text x holds before its first '/', and whether it holds one
HasSlash(x) == x \in {"/blog/post-1", "/a.css", "HTTP/1.1", DATE}
PreSlash(x) ==
    CASE x = "HTTP/1.1" -> <<"HTTP">>
      [] x = DATE -> <<"19">>
      [] OTHER -> << >>

\* the text of s from i up to the first '/'
RECURSIVE UpToSlash(_, _)
UpToSlash(s, i) ==
    IF i > Len(s) THEN << >>
    ELSE IF HasSlash(s[i]) THEN PreSlash(s[i])
    ELSE <<s[i]>> \o UpToSlash(s, i + 1)

\* path_clean.split('/')[1] if path_clean.startswith('/') and
\* len(path_clean.split('/')) > 1 else ""
Section(path_clean) ==
    IF At(path_clean, 1) = "/blog/post-1" THEN <<"blog">>
    ELSE IF At(path_clean, 1) = "/a.css" THEN <<"a.css">> \o UpToSlash(path_clean, 2)
    ELSE Empty

\* re.sub(r'\s+', ' ', s)
RECURSIVE Collapse(_)
Collapse(s) ==
    IF s = << >> THEN << >>
    ELSE IF IsSpace(s[1]) THEN <<"SP">> \o Collapse(SubSeq(s, SkipWS(s, 1), Len(s)))
    ELSE <<s[1]>> \o Collapse(Tail(s))

\* -------------------------------------------------------- classification
AI_LLM_BOT_PATTERNS == <<"GPTBot", "ChatGPT-User", "PerplexityBot", "Claude-User", "ClaudeBot">>

VERIFIED_TOP_BOTS ==
    <<"Googlebot", "Googlebot-Image", "Googlebot-News", "Googlebot-Video", "Googlebot-Mobile",
      "Bingbot", "BingPreview", "DuckDuckBot", "Baiduspider", "YandexBot", "SemrushBot",
      "PerplexityBot", "GPTBot", "ChatGPT-User", "Claude-User", "ClaudeBot", "GPTBot",
      "Bytespider", "CCBot", "Diffbot", "AhrefsBot", "MJ12bot", "facebookexternalhit",
      "Slackbot", "Twitterbot">>

\* (pattern, canonical name), in the order of the source; a pattern r'\bX\b'
\* is written X
BOT_CANONICAL ==
    << <<"Googlebot", <<"Googlebot">> >>,
       <<"Googlebot-Image", <<"Googlebot-Image">> >>,
       <<"Bingbot", <<"Bingbot">> >>,
       <<"GPTBot", <<"GPTBot", "SP", "(OpenAI)">> >>,
       <<"ChatGPT-User", <<"ChatGPT-User", "SP", "(OpenAI)">> >>,
       <<"PerplexityBot", <<"PerplexityBot">> >>,
       <<"Claude-User", <<"Claude-User">> >>,
       <<"AhrefsBot", <<"AhrefsBot">> >>,
       <<"Slackbot", <<"Slackbot">> >>,
       <<"Twitterbot", <<"Twitterbot">> >> >>

Range(s) == {s[i] : i \in 1..Len(s)}

\* the lexeme with its case folded (re.I)
Fold(x) == IF x = "gptbot" THEN "GPTBot" ELSE x

\* re.search(r'\bpat\b', s, re.I): a lexeme spelled pat, or "Googlebot-Image"
\* for pat = "Googlebot" (the '-' is a word boundary), between word boundaries
WordSearch(pat, s) ==
    \E i \in 1..Len(s) :
        /\ ~WordEnd(At(s, i - 1))
        /\ \/ Fold(s[i]) = pat /\ ~WordStart(At(s, i + 1))
           \/ pat = "Googlebot" /\ s[i] = "Googlebot-Image"

\* re.search of an alternation of patterns
AnySearch(pats, s) == \E p \in pats : WordSearch(p, s)

AI_LLM_BOT_RE_search(ua) == AnySearch(Range(AI_LLM_BOT_PATTERNS), ua)

GENERIC_BOT_RE_search(ua) ==
    AnySearch(Range(VERIFIED_TOP_BOTS) \ Range(AI_LLM_BOT_PATTERNS), ua)

\* "Google" in text, re.search(r'google', text, re.I)
HasGoogle(text) == \E i \in 1..Len(text) : text[i] \in {"Googlebot", "Googlebot-Image", "GoogleOther"}
\* "Bing" in text, re.search(r'bing', text, re.I)
HasBing(text) == \E i \in 1..Len(text) : text[i] \in {"Bingbot", "BingPreview"}

\* the number of characters of a lexeme
CharLen(x) == IF x \in {"SP", "JOIN", "QUOTE"} THEN 1 ELSE Len(x)

\* s[:n], cut at the last lexeme that fits
RECURSIVE Prefix(_, _)
Prefix(s, n) ==
    IF s = << >> \/ CharLen(s[1]) > n THEN << >>
    ELSE <<s[1]>> \o Prefix(Tail(s), n - CharLen(s[1]))

\* the group of a user-agent that matched the entry (pat, name) of BOT_CANONICAL
CanonicalGroup(name, ua) ==
    IF HasGoogle(name) THEN "Google"
    ELSE IF HasBing(name) THEN "Bing"
    ELSE IF AnySearch({BOT_CANONICAL[k][1] : k \in 1..Len(BOT_CANONICAL)}, name)
            /\ AI_LLM_BOT_RE_search(ua) THEN "AI/LLM"
    ELSE IF AI_LLM_BOT_RE_search(ua) THEN "AI/LLM"
    ELSE "Generic"

\* the loop over BOT_CANONICAL from entry k on, then the heuristics
RECURSIVE CanonicalFrom(_, _)
CanonicalFrom(ua, k) ==
    IF k <= Len(BOT_CANONICAL)
    THEN IF WordSearch(BOT_CANONICAL[k][1], ua)
         THEN <<BOT_CANONICAL[k][2], CanonicalGroup(BOT_CANONICAL[k][2], ua)>>
         ELSE CanonicalFrom(ua, k + 1)
    ELSE IF HasGoogle(ua) THEN <<(<<"Unknown Google UA">>), "Google">>
    ELSE IF HasBing(ua) THEN <<(<<"Unknown Bing UA">>), "Bing">>
    ELSE IF AI_LLM_BOT_RE_search(ua) THEN <<(<<"Unknown AI/LLM">>), "AI/LLM">>
    ELSE IF GENERIC_BOT_RE_search(ua) THEN <<(<<"Unknown Generic">>), "Generic">>
    ELSE <<Prefix(ua, 80), "Others">>

\* canonicalize_ua(ua): <<canonical_name, group>>
canonicalize_ua(ua) ==
    IF ua = Empty \/ Strip(ua) = Dash THEN <<Dash, "Others">>
    ELSE CanonicalFrom(ua, 1)

\* ------------------------------------------------------ parse_single_entry
\* the raw fields time_str, request, referer, ua, status, bytes_sent of an
\* entry: COMBINED_LOG_RE, else COMMON_LOG_RE, else the relaxed extraction
RawFields(entry) ==
    LET Combined(m) ==
            [time_str |-> m[1],
             request  |-> IF m[2] # Empty THEN Strip(m[2]) ELSE Dash,
             referer  |-> Strip(m[5]),
             ua       |-> Collapse(Strip(m[6])),
             status   |-> m[3],
             bytes    |-> m[4]]
        Common(m2) ==
            [time_str |-> m2[1],
             request  |-> Strip(m2[2]),
             referer  |-> Dash,
             ua       |-> Dash,
             status   |-> m2[3],
             bytes    |-> m2[4]]
        Relaxed(quoted, m_status_bytes, m_time) ==
            [time_str |-> IF m_time # None THEN m_time[1] ELSE Dash,
             request  |-> IF Len(quoted) >= 1 THEN Strip(quoted[1]) ELSE Dash,
             referer  |-> IF Len(quoted) >= 2 THEN Strip(quoted[2]) ELSE Dash,
             ua       |-> IF Len(quoted) >= 1 THEN Strip(quoted[Len(quoted)]) ELSE Dash,
             status   |-> IF m_status_bytes # None THEN m_status_bytes[1][1] ELSE Dash,
             bytes    |-> IF m_status_bytes # None THEN m_status_bytes[1][2] ELSE Dash]
        Cascade(m, m2) ==
            IF m # None THEN Combined(m[1])
            ELSE IF m2 # None THEN Common(m2[1])
            ELSE Relaxed(QuotedFrom(entry, 1), StatusBytesFrom(entry, 1), BracketFrom(entry, 1))
    IN  Cascade(COMBINED_LOG_RE_search(entry), COMMON_LOG_RE_search(entry))

\* the record parse_single_entry returns, from the values of its locals
Record(entry, m_start, f, dt, req, url, bot) ==
    [File         |-> IF m_start # None /\ m_start[1].file # Empty THEN m_start[1].file ELSE Dash,
     LineNo       |-> IF m_start # None /\ m_start[1].lineno # Empty
                      THEN m_start[1].lineno ELSE Empty,
     ClientIP     |-> IF m_start # None THEN m_start[1].ip ELSE Dash,
     Time         |-> IF dt # None THEN <<dt[1]>> ELSE Dash,
     Time_parsed  |-> dt,
     Method       |-> req[1],
     Path         |-> req[2],
     PathClean    |-> url[1],
     Query        |-> url[2],
     QueryParams  |-> url[3],
     Status       |-> f.status,
     StatusClass  |-> IF f.status = <<"200">> THEN <<"2xx">> ELSE Dash,
     Bytes        |-> f.bytes,
     Referer      |-> f.referer,
     UserAgent    |-> f.ua,
     BotCanonical |-> bot[1],
     BotGroup     |-> bot[2],
     IsStatic     |-> STATIC_RE_search(req[2]),
     Section      |-> Section(url[1]),
     HTTP_Version |-> req[3],
     RawEntry     |-> entry]

\* parse_single_entry(entry): None, or the record.  No step of the body
\* raises on the texts of the model, so the except branch is never taken.
parse_single_entry(entry) ==
    LET Fields(f) ==
            LET Request(req) ==
                    Record(entry, START_INFO_RE_match(entry), f, parse_time_preserve_tz(f.time_str),
                           req, safe_urlparse(req[2]), canonicalize_ua(f.ua))
            IN  Request(parse_request_field(f.request))
    IN  Some(Fields(RawFields(entry)))

\* ------------------------------------------------ detect_encoding_from_sample
sample_size == 65536

\* the bytes of the model: NUL, 'a', a two-byte UTF-8 sequence (C3 A9), the
\* two bytes of a byte order mark (FF, FE), the high bytes of a high and of
\* a low surrogate (D8, DC)
Bytes == {0, 97, 195, 169, 255, 254, 216, 220}

IsCont(b) == b >= 128 /\ b <= 191

\* bytes.decode("utf-8") succeeds
RECURSIVE Utf8Valid(_)
Utf8Valid(s) ==
    IF s = << >> THEN TRUE
    ELSE IF s[1] < 128 THEN Utf8Valid(Tail(s))
    ELSE IF s[1] >= 194 /\ s[1] <= 223
    THEN Len(s) >= 2 /\ IsCont(s[2]) /\ Utf8Valid(SubSeq(s, 3, Len(s)))
    ELSE IF s[1] >= 224 /\ s[1] <= 239
    THEN /\ Len(s) >= 3 /\ IsCont(s[2]) /\ IsCont(s[3])
         /\ (s[1] = 224 => s[2] >= 160)
         /\ (s[1] = 237 => s[2] <= 159)
         /\ Utf8Valid(SubSeq(s, 4, Len(s)))
    ELSE IF s[1] >= 240 /\ s[1] <= 244
    THEN /\ Len(s) >= 4 /\ IsCont(s[2]) /\ IsCont(s[3]) /\ IsCont(s[4])
         /\ (s[1] = 240 => s[2] >= 144)
         /\ (s[1] = 244 => s[2] <= 143)
         /\ Utf8Valid(SubSeq(s, 5, Len(s)))
    ELSE FALSE

\* the code units of s from byte i on: hi = 1 when the high byte comes first
RECURSIVE Units(_, _, _)
Units(s, i, hi) ==
    IF i + 1 > Len(s) THEN << >>
    ELSE <<IF hi = 1 THEN 256 * s[i] + s[i + 1] ELSE 256 * s[i + 1] + s[i]>> \o Units(s, i + 2, hi)

IsHigh(u) == u >= 55296 /\ u <= 56319
IsLow(u) == u >= 56320 /\ u <= 57343

\* every surrogate of the code units is half of a pair
RECURSIVE Paired(_)
Paired(u) ==
    IF u = << >> THEN TRUE
    ELSE IF IsHigh(u[1]) THEN Len(u) >= 2 /\ IsLow(u[2]) /\ Paired(SubSeq(u, 3, Len(u)))
    ELSE IF IsLow(u[1]) THEN FALSE
    ELSE Paired(Tail(u))

\* bytes.decode("utf-16") succeeds: a byte order mark sets the byte order
\* (little-endian, the machine's, without one), the length is even and the
\* surrogates are paired
Utf16Valid(s) ==
    LET be  == Len(s) >= 2 /\ s[1] = 254 /\ s[2] = 255
        bom == Len(s) >= 2 /\ ((s[1] = 255 /\ s[2] = 254) \/ be)
        from == IF bom THEN 3 ELSE 1
    IN  /\ Len(s) % 2 = 0
        /\ Paired(Units(s, from, IF be THEN 1 ELSE 0))

\* bytes.decode("latin-1") succeeds
Latin1Valid(s) == TRUE

\* detect_encoding_from_sample(b)
detect_encoding_from_sample(b) ==
    LET sample == SubSeq(b, 1, IF Len(b) < sample_size THEN Len(b) ELSE sample_size)
    IN  IF Utf8Valid(sample) THEN "utf-8"
        ELSE IF Utf16Valid(sample) THEN "utf-16"
        ELSE IF Latin1Valid(sample) THEN "latin-1"
        ELSE "utf-8"

\* ------------------------------------------------------------------ inputs
\* a combined-format line whose user-agent is cut by a line break
L_HEAD == <<IP, "SP", "-", "SP", "-", "SP", "[", DATE, "]", "SP",
            "QUOTE", "GET", "SP", "/blog/post-1", "SP", "HTTP/1.1", "QUOTE", "SP",
            "200", "SP", "1532", "SP", "QUOTE", "-", "QUOTE", "SP", "QUOTE", "Mozilla">>
\* the rest of that user-agent
L_TAIL == <<"GPTBot", "QUOTE">>
\* an address followed by trailing whitespace
L_IP_TRAIL == <<IP, "SP">>
\* a grep-prefixed line: access.log:200:203.0.113.255 GET
L_PFX_IP == <<"access.log", ":", "200", ":", IP, "SP", "GET">>
\* a line that starts with a bracketed date
L_DATE == <<"[", DATE, "]", "SP", "Mozilla">>
\* a grep-prefixed line that starts, after the prefix, with a bracketed date
L_PFX_DATE == <<"access.log", ":", "200", ":", "[", DATE, "]">>
\* a fragment that starts with a digit: 537.36 Mozilla
L_DIGIT == <<"537.36", "SP", "Mozilla">>
\* a line that starts with '[' and holds a date further on
L_BRACKET == <<"[", "Mozilla", "SP", DATE>>
\* a fragment with leading whitespace, a line of whitespace, an empty line
L_LEAD_WS == <<"SP", "Mozilla">>
L_WS == <<"SP">>
L_EMPTY == << >>

\* the lines the input is drawn from
Lines == {L_HEAD, L_TAIL, L_IP_TRAIL, L_PFX_IP, L_DATE, L_PFX_DATE, L_DIGIT, L_BRACKET,
          L_LEAD_WS, L_WS, L_EMPTY}

\* all sequences over S of length at most n
RECURSIVE SeqsUpTo(_, _)
SeqsUpTo(S, n) ==
    IF n = 0 THEN {<< >>}
    ELSE SeqsUpTo(S, n - 1) \cup {Append(t, x) : t \in SeqsUpTo(S, n - 1), x \in S}

\* the lexemes of an entry
Lexemes == UA_TOKENS \cup {"SP", "QUOTE", IP, DATE, ":", "200", "1532", "537.36", "[", "]", "-",
                           "GET", "/blog/post-1", "/a.css", "?", "v=1", "HTTP/1.1"}

\* the lexemes of a user-agent
UaLexemes == UA_TOKENS \cup {"SP", "-"}

\* ------------------------------------------------------------------- state
VARIABLES
    input,         \* the lines read from `lines` so far
    buf,           \* buf of parse_streaming_to_dfs
    parsed_batch,  \* parsed_batch of parse_streaming_to_dfs
    pc,            \* where parse_streaming_to_dfs stands: "loop", at a yield, "done"
    out,           \* the batch a yield hands over, until the caller has taken it
    dfs,           \* dfs of the calling loop
    total_rows,    \* total_rows of the calling loop
    batch_count,   \* batch_count of the calling loop
    df,            \* pd.concat(dfs), None before
    cpc,           \* where the caller stands: "pulling", "stopped", "ready"
    emptyAt,       \* history: the indices of the lines that arrived while buf was empty
    ua, ua_result,         \* canonicalize_ua: argument, result
    sample, enc,           \* detect_encoding_from_sample: argument, result
    entry, rec, parsed     \* parse_single_entry: argument, result, called

vars == <<input, buf, parsed_batch, pc, out, dfs, total_rows, batch_count, df, cpc, emptyAt,
          ua, ua_result, sample, enc, entry, rec, parsed>>

streamVars == <<input, buf, parsed_batch, pc, out, dfs, total_rows, batch_count, df, cpc, emptyAt>>
uaVars == <<ua, ua_result>>
encVars == <<sample, enc>>
parseVars == <<entry, rec, parsed>>

\* ------------------------------------------------- parse_streaming_to_dfs
\* a faulty append: the record is put at the head of the batch
PrependRecord(batch, item) == <<item>> \o batch

\* parsed_batch.append(r)
AppendRecord(batch, item) == Append(batch, item)

\* r = parse_single_entry(entry); if r: parsed_batch.append(r)
\* An item is the record r with the index of the first line of its entry and
\* the number of lines of the entry (history, not read by the program).
Emit(batch, text, first, n) ==
    LET r == parse_single_entry(text)
    IN  IF r # None THEN AppendRecord(batch, [r |-> r[1], first |-> first, n |-> n]) ELSE batch

\* a faulty test: the batch is yielded one record early
BatchEarly(batch) == Len(batch) >= BatchSize - 1

\* a faulty test: the batch is yielded one record late
BatchOver(batch) == Len(batch) > BatchSize

\* len(parsed_batch) >= batch_size
BatchFull(batch) == Len(batch) >= BatchSize

\* entry = " ".join(buf).strip()
EntryOf(b) == Strip(Join(b))

\* entry = ln.strip()
OrphanOf(ln) == Strip(ln)

\* a faulty restart: the buffer is cleared and the line is lost
RestartCleared(b, ln) == << >>

\* buf = [ln] on a line that starts an entry
Restart(b, ln) == <<ln>>

\* a faulty continuation: the line is not kept
ExtendDropped(b, ln) == b

\* buf.append(ln) on a continuation line
Extend(b, ln) == Append(b, ln)

\* One turn of `for ln in lines` with the line ln, up to the next yield or
\* to the end of the loop body.
ReadLine(ln) ==
    /\ pc = "loop"
    /\ Len(input) < MaxLines
    /\ input' = Append(input, ln)
    /\ emptyAt' = IF buf = << >> THEN emptyAt \cup {Len(input) + 1} ELSE emptyAt
    /\ IF start_of_entry(ln)
       THEN IF buf # << >>
            THEN LET b1 == Emit(parsed_batch, EntryOf(buf), Len(input) + 1 - Len(buf), Len(buf))
                 IN  /\ parsed_batch' = b1
                     /\ IF b1 # parsed_batch /\ BatchFull(b1)
                        THEN pc' = "yield_flush" /\ out' = Some(b1) /\ buf' = buf
                        ELSE pc' = "loop" /\ out' = out /\ buf' = Restart(buf, ln)
            ELSE /\ buf' = Restart(buf, ln)
                 /\ UNCHANGED <<parsed_batch, pc, out>>
       ELSE IF buf # << >>
            THEN /\ buf' = Extend(buf, ln)
                 /\ UNCHANGED <<parsed_batch, pc, out>>
            ELSE LET b1 == Emit(parsed_batch, OrphanOf(ln), Len(input) + 1, 1)
                 IN  /\ parsed_batch' = b1
                     /\ buf' = buf
                     /\ IF b1 # parsed_batch /\ BatchFull(b1)
                        THEN pc' = "yield_orphan" /\ out' = Some(b1)
                        ELSE pc' = "loop" /\ out' = out
    /\ UNCHANGED <<dfs, total_rows, batch_count, df, cpc>>

\* `lines` is exhausted: the buffer is flushed and the last batch yielded
EndOfStream ==
    /\ pc = "loop"
    /\ LET b1 == IF buf # << >>
                 THEN Emit(parsed_batch, EntryOf(buf), Len(input) + 1 - Len(buf), Len(buf))
                 ELSE parsed_batch
       IN  /\ parsed_batch' = b1
           /\ IF b1 # << >>
              THEN pc' = "yield_final" /\ out' = Some(b1)
              ELSE pc' = "done" /\ out' = out
    /\ UNCHANGED <<input, buf, dfs, total_rows, batch_count, df, cpc, emptyAt>>

\* the body of the caller's loop on the batch a yield handed over
TakeBatch ==
    /\ out # None
    /\ dfs' = Append(dfs, out[1])
    /\ total_rows' = total_rows + Len(out[1])
    /\ batch_count' = batch_count + 1
    /\ out' = None
    /\ UNCHANGED <<input, buf, parsed_batch, pc, df, cpc, emptyAt>>

\* the caller asks for the next batch: the generator goes on after its yield
Resume ==
    /\ out = None
    /\ pc \in {"yield_flush", "yield_orphan", "yield_final"}
    /\ IF pc = "yield_flush"
       THEN parsed_batch' = << >> /\ buf' = Restart(buf, input[Len(input)]) /\ pc' = "loop"
       ELSE IF pc = "yield_orphan"
       THEN parsed_batch' = << >> /\ buf' = buf /\ pc' = "loop"
       ELSE parsed_batch' = parsed_batch /\ buf' = buf /\ pc' = "done"
    /\ UNCHANGED <<input, out, dfs, total_rows, batch_count, df, cpc, emptyAt>>

\* the records of a list of batches, in order
RECURSIVE Flatten(_)
Flatten(batches) == IF batches = << >> THEN << >> ELSE batches[1] \o Flatten(Tail(batches))

\* df = pd.concat(dfs, ignore_index=True)
Concat ==
    /\ pc = "done" /\ cpc = "pulling" /\ dfs # << >>
    /\ df' = Some(Flatten(dfs))
    /\ cpc' = "ready"
    /\ UNCHANGED <<input, buf, parsed_batch, pc, out, dfs, total_rows, batch_count, emptyAt>>

\* if not dfs: st.warning("No parseable entries found."); st.stop()
NoEntries ==
    /\ pc = "done" /\ cpc = "pulling" /\ dfs = << >>
    /\ cpc' = "stopped"
    /\ UNCHANGED <<input, buf, parsed_batch, pc, out, dfs, total_rows, batch_count, df, emptyAt>>

InitStream ==
    /\ input = << >> /\ buf = << >> /\ parsed_batch = << >> /\ pc = "loop" /\ out = None
    /\ dfs = << >> /\ total_rows = 0 /\ batch_count = 0 /\ df = None /\ cpc = "pulling"
    /\ emptyAt = {}

IdleUA == ua = << >> /\ ua_result = << >>
IdleEnc == sample = << >> /\ enc = ""
IdleParse == entry = << >> /\ rec = None /\ parsed = FALSE

Init == InitStream /\ IdleUA /\ IdleEnc /\ IdleParse

Next ==
    \/ \E ln \in Lines : ReadLine(ln) /\ UNCHANGED <<uaVars, encVars, parseVars>>
    \/ EndOfStream /\ UNCHANGED <<uaVars, encVars, parseVars>>
    \/ TakeBatch /\ UNCHANGED <<uaVars, encVars, parseVars>>
    \/ Resume /\ UNCHANGED <<uaVars, encVars, parseVars>>
    \/ Concat /\ UNCHANGED <<uaVars, encVars, parseVars>>
    \/ NoEntries /\ UNCHANGED <<uaVars, encVars, parseVars>>

Spec == Init /\ [][Next]_vars

\* ----------------------------------------------------------- canonicalize_ua
Classify ==
    /\ ua_result = << >>
    /\ ua_result' = canonicalize_ua(ua)
    /\ UNCHANGED <<ua, streamVars, encVars, parseVars>>

InitUA == InitStream /\ IdleEnc /\ IdleParse /\ ua \in SeqsUpTo(UaLexemes, MaxUaLen) /\ ua_result = << >>

NextUA == Classify

SpecUA == InitUA /\ [][NextUA]_vars

\* ----------------------------------------------- detect_encoding_from_sample
Detect ==
    /\ enc = ""
    /\ enc' = detect_encoding_from_sample(sample)
    /\ UNCHANGED <<sample, streamVars, uaVars, parseVars>>

InitEnc == InitStream /\ IdleUA /\ IdleParse /\ sample \in SeqsUpTo(Bytes, MaxSampleLen) /\ enc = ""

NextEnc == Detect

SpecEnc == InitEnc /\ [][NextEnc]_vars

\* -------------------------------------------------------- parse_single_entry
\* the entries parse_single_entry is given: every text of at most MaxEntryLen
\* lexemes, and the entries the lines of the model make
SampleEntries ==
    SeqsUpTo(Lexemes, MaxEntryLen)
        \cup {EntryOf(<<a>>) : a \in Lines}
        \cup {EntryOf(<<a, b>>) : a \in Lines, b \in Lines}

Parse ==
    /\ ~parsed
    /\ rec' = parse_single_entry(entry)
    /\ parsed' = TRUE
    /\ UNCHANGED <<entry, streamVars, uaVars, encVars>>

InitParse == InitStream /\ IdleUA /\ IdleEnc /\ entry \in SampleEntries /\ rec = None /\ parsed = FALSE

NextParse == Parse

SpecParse == InitParse /\ [][NextParse]_vars

\* =================================================================== claims
\* ------------------------------------------------------- what a run has emitted
\* the records yielded so far, in yield order
Yielded == Flatten(dfs) \o (IF out # None THEN out[1] ELSE << >>)

\* the records parsed so far, in emission order: the yielded ones, then the
\* ones still pending in parsed_batch
Records == Yielded \o (IF pc = "loop" THEN parsed_batch ELSE << >>)

\* the lines read that no record holds yet
Pending ==
    CASE pc = "loop" -> buf
      [] pc = "yield_flush" -> <<input[Len(input)]>>
      [] OTHER -> << >>

\* the run is over and the caller has taken every batch
Finished == pc = "done" /\ out = None

\* the concatenation of a sequence of texts
RECURSIVE Cat(_)
Cat(texts) == IF texts = << >> THEN << >> ELSE texts[1] \o Cat(Tail(texts))

\* a text with the joining spaces removed
RECURSIVE WithoutJoin(_)
WithoutJoin(s) ==
    IF s = << >> THEN << >>
    ELSE (IF s[1] = "JOIN" THEN << >> ELSE <<s[1]>>) \o WithoutJoin(Tail(s))

\* the entry texts of a sequence of records
Entries(recs) == [j \in 1..Len(recs) |-> recs[j].r.RawEntry]

\* the lines first .. first + n - 1 of the input
LinesOf(item) == SubSeq(input, item.first, item.first + item.n - 1)

\* the first lines of the records increase strictly
Increasing(recs) == \A i, j \in 1..Len(recs) : i < j => recs[i].first < recs[j].first

\* ---------------------------------------------------- the anchors of the spec
\* ln without a leading <token>:<integer>: prefix
AfterPrefix(ln) ==
    IF /\ SkipFile(ln, 1) > 1
       /\ At(ln, SkipFile(ln, 1)) = ":"
       /\ SkipDigits(ln, SkipFile(ln, 1) + 1) > SkipFile(ln, 1) + 1
       /\ At(ln, SkipDigits(ln, SkipFile(ln, 1) + 1)) = ":"
    THEN SubSeq(ln, SkipDigits(ln, SkipFile(ln, 1) + 1) + 1, Len(ln))
    ELSE ln

\* s begins with an IPv4 address followed by whitespace, or with a bracketed
\* NCSA date [DD/Mon/YYYY
Anchored(s) ==
    \/ Len(s) >= 2 /\ s[1] = IP /\ IsSpace(s[2])
    \/ Len(s) >= 2 /\ s[1] = "[" /\ s[2] = DATE

\* ln matches an anchor of the specification
SpecAnchor(ln) == Anchored(ln) \/ Anchored(AfterPrefix(ln))

\* the lines read so far that start_of_entry takes for the start of an entry
StartsRead == {i \in 1..Len(input) : start_of_entry(input[i])}

\* ------------------------------------------------------------------------ C1
\* C1 (as stated): when the run is over, the emitted entries, in emission
\* order and with the joining spaces removed, are exactly the concatenation
\* of the input lines in input order.
C1_Conservation ==
    Finished => WithoutJoin(Cat(Entries(Records))) = Cat(input)

\* C1 (amended): at every point of the run the records, in emission order,
\* hold consecutive runs of input lines that start at line 1 and leave out
\* exactly the lines still pending; each entry is the single-space join of
\* its lines, less the whitespace .strip() takes from its two ends; once the
\* run is over nothing is pending, so every line is in exactly one entry.
C1_ConservationUpToStrip ==
    /\ \A j \in 1..Len(Records) :
          /\ Records[j].n >= 1
          /\ Records[j].first = (IF j = 1 THEN 1 ELSE Records[j - 1].first + Records[j - 1].n)
          /\ Records[j].first + Records[j].n - 1 <= Len(input)
          /\ Records[j].r.RawEntry = Strip(Join(LinesOf(Records[j])))
    /\ (IF Records = << >> THEN 0
        ELSE Records[Len(Records)].first + Records[Len(Records)].n - 1) + Len(Pending)
          = Len(input)
    /\ Pending = SubSeq(input, Len(input) - Len(Pending) + 1, Len(input))
    /\ Finished => Pending = << >>

\* a finished run with an entry of several lines and an entry that lost
\* whitespace at its ends
C1_Witness ==
    /\ Finished
    /\ \E j \in 1..Len(Records) : Records[j].n >= 2
    /\ \E j \in 1..Len(Records) : Records[j].r.RawEntry # Join(LinesOf(Records[j]))

\* ------------------------------------------------------------------------ C2
\* C2: a line that matches neither anchor of the specification and arrives
\* while an entry is being accumulated is appended to that entry; it starts
\* no new entry and emits no record.
C2_Continuation ==
    [][(/\ input' # input
        /\ buf # << >>
        /\ ~SpecAnchor(input'[Len(input')]))
       => (buf' = Append(buf, input'[Len(input')]) /\ parsed_batch' = parsed_batch)]_vars

\* ------------------------------------------------------------------------ C3
\* C3: when every line of the input is an anchor line of the specification,
\* the finished run has one entry per line, and entry j is line j (compared
\* here up to the whitespace at the two ends of the line, which C1 is about).
C3_Idempotence ==
    (Finished /\ \A i \in 1..Len(input) : SpecAnchor(input[i]))
        => /\ Len(Records) = Len(input)
           /\ \A j \in 1..Len(Records) : Records[j].r.RawEntry = Strip(input[j])

\* ------------------------------------------------------------------------ C4
\* C4: a line that is no anchor of the specification and arrived while the
\* buffer was empty is, when the run is over, the first line of exactly one
\* record, and the entry of that record is the line alone (up to the
\* whitespace at its two ends).
C4_OrphanPolicy ==
    Finished =>
        \A i \in emptyAt :
            ~SpecAnchor(input[i])
                => /\ Cardinality({j \in 1..Len(Records) : Records[j].first = i}) = 1
                   /\ \A j \in 1..Len(Records) :
                         Records[j].first = i => Records[j].r.RawEntry = Strip(input[i])

\* ------------------------------------------------------------------------ C5
\* C5: the first lines of the records increase strictly along the yielded
\* batches taken in yield order, along the records parsed so far, and along
\* the rows of the concatenated frame.
C5_OutputOrder ==
    /\ Increasing(Yielded)
    /\ Increasing(Records)
    /\ df # None => (df[1] = Flatten(dfs) /\ Increasing(df[1]))

\* a concatenated frame of several batches that holds an orphan record, an
\* entry flushed by the next start line, and the entry of the final flush
C5_Witness ==
    /\ cpc = "ready"
    /\ batch_count >= 2
    /\ Len(df[1]) >= 3
    /\ ~start_of_entry(input[df[1][1].first])
    /\ start_of_entry(input[df[1][2].first])
    /\ start_of_entry(input[df[1][Len(df[1])].first])

\* ------------------------------------------------------------------------ C6
\* C6: a user-agent that matches an AI/LLM signature is put in the AI/LLM
\* group, whatever else it holds.
C6_AiFirst ==
    (ua_result # << >> /\ AI_LLM_BOT_RE_search(ua)) => ua_result[2] = "AI/LLM"

\* ------------------------------------------------------------------------ C7
\* C7: parse_single_entry returns a record for every entry, with every field
\* present, and with "-" rather than an empty text in the fields whose
\* documented placeholder is "-".
C7_Placeholders ==
    parsed =>
        /\ rec # None
        /\ DOMAIN rec[1] = {"File", "LineNo", "ClientIP", "Time", "Time_parsed", "Method", "Path",
                            "PathClean", "Query", "QueryParams", "Status", "StatusClass", "Bytes",
                            "Referer", "UserAgent", "BotCanonical", "BotGroup", "IsStatic",
                            "Section", "HTTP_Version", "RawEntry"}
        /\ \A f \in {"File", "LineNo", "ClientIP", "Status", "StatusClass", "Bytes", "Referer"} :
              rec[1][f] # Empty

\* ------------------------------------------------------------------------ C8
\* C8 (as stated): on an input with more than one entry the first batch is
\* not the one handed over at the end of the stream.
C8_FirstBeforeEnd ==
    (pc = "yield_final" /\ dfs = << >>) => Len(out[1]) <= 1

\* C8 (amended): records are handed over in batches of batch_size.  As long
\* as nothing has been handed over, fewer than batch_size records are
\* pending; a batch yielded inside the loop is handed over before any further
\* line is read and holds batch_size records, not the whole output; the first
\* batch waits for the end of the stream only when the whole run has at most
\* batch_size records.
C8_BatchedStreaming ==
    /\ (dfs = << >> /\ out = None) => Len(parsed_batch) < BatchSize
    /\ (pc \in {"yield_flush", "yield_orphan"} /\ out # None)
          => /\ Len(out[1]) = BatchSize
             /\ Len(Flatten(dfs)) + Len(out[1]) = Len(Records)
             /\ out[1][Len(out[1])].first + out[1][Len(out[1])].n - 1 + Len(Pending) = Len(input)
    /\ (pc = "yield_final" /\ dfs = << >>) => Len(Records) <= BatchSize

\* the first batch is being handed over inside the loop
C8_Witness ==
    /\ pc \in {"yield_flush", "yield_orphan"}
    /\ dfs = << >>
    /\ out # None
    /\ Len(out[1]) >= 2

\* ------------------------------------------------------------------------ C9
\* C9: a sample that holds a NUL byte is detected as UTF-16.
C9_NulIsUtf16 ==
    (enc # "" /\ \E i \in 1..Len(sample) : sample[i] = 0) => enc = "utf-16"

\* ----------------------------------------------------------------------- C10
\* C10: once a line that starts an entry has been read the buffer is never
\* empty again; a line arrives at an empty buffer only before the first such
\* line, and a record that does not begin at such a line is an orphan of one
\* line that precedes all of them.
C10_BufferStaysNonEmpty ==
    /\ StartsRead # {} => buf # << >>
    /\ \A i \in emptyAt : \A a \in StartsRead : i <= a
    /\ \A j \in 1..Len(Records) :
          ~start_of_entry(input[Records[j].first])
              => (Records[j].n = 1 /\ \A a \in StartsRead : Records[j].first < a)

\* an orphan, then a start line, then a continuation merged into its entry
C10_Witness ==
    /\ Len(Records) >= 2
    /\ ~start_of_entry(input[Records[1].first])
    /\ Records[2].n >= 2
    /\ ~start_of_entry(input[Records[2].first + 1])

\* ----------------------------------------------------------------------- C11
\* the batches yielded so far, in yield order
YieldedBatches == dfs \o (IF out # None THEN <<out[1]>> ELSE << >>)

\* the lines read so far that begin an entry: the lines start_of_entry
\* accepts, and the lines before the first of them (one orphan entry each)
EntryStarts ==
    {i \in 1..Len(input) :
        start_of_entry(input[i]) \/ \A k \in 1..i : ~start_of_entry(input[k])}

\* C11: while the loop runs the pending batch holds fewer than batch_size
\* records; every yielded batch is non-empty; every yielded batch holds
\* exactly batch_size records, except possibly the last one of the run (the
\* one yielded after the loop); and when the run is over the sizes of the
\* yielded batches sum to the number of entries of the input, which is also
\* the caller's total_rows, in batch_count batches.
C11_BatchingInvariant ==
    /\ pc = "loop" => Len(parsed_batch) < BatchSize
    /\ \A k \in 1..Len(YieldedBatches) :
          /\ Len(YieldedBatches[k]) >= 1
          /\ Len(YieldedBatches[k]) <= BatchSize
          /\ (k < Len(YieldedBatches) \/ pc \in {"loop", "yield_flush", "yield_orphan"})
                => Len(YieldedBatches[k]) = BatchSize
    /\ Finished
          => /\ Len(Flatten(YieldedBatches)) = Cardinality(EntryStarts)
             /\ total_rows = Cardinality(EntryStarts)
             /\ batch_count = Len(YieldedBatches)

\* a finished run of several batches whose last batch is not full
C11_Witness ==
    /\ Finished
    /\ Len(dfs) >= 2
    /\ Len(dfs[1]) = BatchSize
    /\ Len(dfs[Len(dfs)]) < BatchSize

=============================================================================
